---- MODULE Spec2Model ----
(***************************************************************************)
(* Model of notebook_dashboard.py: NotebookDashboardGenerator (extraction   *)
(* of title, markdown and plots from a notebook document, the three HTML    *)
(* templates with their markdown/plot converters) and main().               *)
(*                                                                          *)
(* A Python str is a sequence of one-character strings.  Fixed markup that  *)
(* the program emits (tags, indentation, the stylesheets) is one token per  *)
(* emitted literal; none of these literals contains a character that a      *)
(* later rewrite of _markdown_to_html looks for.                            *)
(***************************************************************************)
EXTENDS Integers, Sequences, FiniteSets, TLC

VARIABLES
    pc,          \* position of the running call
    notebook,    \* the input file: [exists, json_ok, doc]
    template,    \* the template name handed to the renderer
    clock,       \* reading of datetime.now() at render time
    content,     \* extracted_content of parse_notebook
    cell_idx,    \* position of the for loop of parse_notebook (1-based)
    md_idx,      \* _pair_content: md_idx (0-based, as in the source)
    plot_idx,    \* _pair_content: plot_idx (0-based)
    pairs,       \* _pair_content: pairs
    html,        \* html_content, the text returned by _create_html_template
    out,         \* the output file: [opened, text]
    messages,    \* what has been printed, in order
    failure,     \* which step failed, "none" when none did
    uncaught,    \* TRUE when an exception left main()
    self,        \* the generator's instance fields [plots, markdown_content]
    ref,         \* the first parse_notebook call on this generator: [doc, result]
    last,        \* the latest parse_notebook call on this generator: [doc, result]
    calls        \* number of calls made on this generator

vars == <<pc, notebook, template, clock, content, cell_idx, md_idx, plot_idx,
          pairs, html, out, messages, failure, uncaught, self, ref, last, calls>>

----------------------------------------------------------------------------
(* Bounds of the model *)

\* cells of a document
MaxCells == 2
\* markdown entries of a content record handed to the renderer
MaxMd == 2
\* plots of a content record handed to the renderer
MaxPlots == 3
\* characters before / after the line `# My Title` in its cell
MaxBefore == 2
MaxAfter == 1
\* calls made on one generator object
MaxCalls == 3
\* iterations of the loop of _pair_content that the model follows
MaxIter == 8

----------------------------------------------------------------------------
(* Python str helpers *)

NL == "\n"

Whitespace == {" ", "\n", "\t"}

Max(a, b) == IF a >= b THEN a ELSE b

RECURSIVE Concat(_)
\* ''.join(fragments)
Concat(frags) ==
    IF frags = << >> THEN << >> ELSE Head(frags) \o Concat(Tail(frags))

RECURSIVE LStrip(_)
LStrip(s) ==
    IF s # << >> /\ Head(s) \in Whitespace THEN LStrip(Tail(s)) ELSE s

RECURSIVE RStrip(_)
RStrip(s) ==
    IF s # << >> /\ s[Len(s)] \in Whitespace
    THEN RStrip(SubSeq(s, 1, Len(s) - 1)) ELSE s

\* str.strip()
Strip(s) == RStrip(LStrip(s))

\* an optional str: None, or a str
None == [is_none |-> TRUE, text |-> << >>]

Some(s) == [is_none |-> FALSE, text |-> s]

\* truth value of an optional str: None and '' are false
Truthy(x) == ~x.is_none /\ x.text # << >>

\* s[i..] starts with the sequence p
StartsAt(s, i, p) ==
    /\ i >= 1
    /\ i + Len(p) - 1 <= Len(s)
    /\ \A k \in 1..Len(p) : s[i + k - 1] = p[k]

\* p occurs in s as a contiguous run
Contains(s, p) == \E i \in 1..(Len(s) + 1) : StartsAt(s, i, p)

\* index of the last character of the line that holds position i
RECURSIVE LineEnd(_, _)
LineEnd(s, i) ==
    IF i + 1 <= Len(s) /\ s[i + 1] # NL THEN LineEnd(s, i + 1) ELSE i

\* the lines of s, split at "\n" (as the MULTILINE anchors see them)
RECURSIVE SplitLines(_)
SplitLines(s) ==
    IF \E i \in 1..Len(s) : s[i] = NL
    THEN LET i == CHOOSE j \in 1..Len(s) :
                      s[j] = NL /\ \A k \in 1..(j - 1) : s[k] # NL
         IN  <<SubSeq(s, 1, i - 1)>> \o SplitLines(SubSeq(s, i + 1, Len(s)))
    ELSE <<s>>

RECURSIVE JoinLines(_)
\* '\n'.join(parts)
JoinLines(parts) ==
    IF parts = << >> THEN << >>
    ELSE IF Len(parts) = 1 THEN parts[1]
    ELSE parts[1] \o <<NL>> \o JoinLines(Tail(parts))

----------------------------------------------------------------------------
(* _extract_title *)

LineStart(s, i) == i = 1 \/ s[i - 1] = NL

\* length of the run of whitespace that starts at position i
RECURSIVE WsRun(_, _)
WsRun(s, i) ==
    IF i <= Len(s) /\ s[i] \in Whitespace THEN 1 + WsRun(s, i + 1) ELSE 0

\* the lengths k that \s+ can take at a '#' at position i so that (.+)$ still
\* matches: k whitespace characters, then at least one non-newline character
H1Lens(s, i) ==
    {k \in 1..WsRun(s, i + 1) : i + k + 1 <= Len(s) /\ s[i + k + 1] # NL}

\* re.search(r'^#\s+(.+)$', source, re.MULTILINE) matches at position i
H1MatchAt(s, i) ==
    /\ i \in 1..Len(s)
    /\ LineStart(s, i)
    /\ s[i] = "#"
    /\ H1Lens(s, i) # {}

\* group(1) of the match at i: \s+ is greedy, (.+) runs to the end of its line
H1Group(s, i) ==
    LET k == CHOOSE x \in H1Lens(s, i) : \A y \in H1Lens(s, i) : y <= x
    IN  SubSeq(s, i + k + 1, LineEnd(s, i + k + 1))

H1Search(s) ==
    IF \E i \in 1..Len(s) : H1MatchAt(s, i)
    THEN LET i == CHOOSE j \in 1..Len(s) :
                      H1MatchAt(s, j) /\ \A k \in 1..(j - 1) : ~H1MatchAt(s, k)
         IN  [found |-> TRUE, group |-> H1Group(s, i)]
    ELSE [found |-> FALSE, group |-> << >>]

Dashboard == <<"D", "a", "s", "h", "b", "o", "a", "r", "d">>

Ok(v) == [ok |-> TRUE, exc |-> "none", val |-> v]
Raise(e) == [ok |-> FALSE, exc |-> e, val |-> << >>]

\* ''.join(cell.get('source', [])) of _extract_title
TitleSource(cell) ==
    IF cell.source.kind = "badlist" THEN Raise("TypeError")
    ELSE Ok(Concat(cell.source.frags))

RECURSIVE TitleFrom(_, _)
TitleFrom(cells, i) ==
    IF i > Len(cells) THEN Ok(Dashboard)
    ELSE IF cells[i].cell_type = "missing" THEN Raise("KeyError")
    ELSE IF cells[i].cell_type = "markdown"
    THEN LET src == TitleSource(cells[i])
         IN  IF ~src.ok THEN src
             ELSE IF H1Search(src.val).found
                  THEN Ok(Strip(H1Search(src.val).group))
                  ELSE TitleFrom(cells, i + 1)
    ELSE TitleFrom(cells, i + 1)

\* notebook.get('cells', [])
CellsOf(doc) == IF doc.has_cells THEN doc.cells ELSE << >>

ExtractTitle(doc) == TitleFrom(CellsOf(doc), 1)

----------------------------------------------------------------------------
(* _process_markdown_cell, _extract_plots_from_cell, parse_notebook *)

\* source = cell.get('source', []); ''.join(source) for a list, str(source)
\* otherwise
ProcessMarkdownCell(cell) ==
    IF cell.source.kind = "badlist" THEN Raise("TypeError")
    ELSE Ok(Concat(cell.source.frags))

\* mutant: the filter left out, every markdown cell is appended
AdmittedAll(markdown_text) == TRUE

\* the filter of parse_notebook: if markdown_text.strip()
Admitted(markdown_text) == Strip(markdown_text) # << >>

\* mutant: the vector format scanned first
MimeScanSvgFirst == <<"image/svg+xml", "image/png", "image/jpeg">>

\* the fixed scan order of the MIME types
MimeScan == <<"image/png", "image/jpeg", "image/svg+xml">>

ExtractedKinds == {"display_data", "execute_result"}

RECURSIVE PlotsOfOutput(_, _)
\* the inner for loop over the MIME types, from position k of the scan
PlotsOfOutput(output, k) ==
    IF k > Len(MimeScan) THEN << >>
    ELSE (IF MimeScan[k] \in DOMAIN output.data
          THEN <<[mime_type |-> MimeScan[k],
                  data |-> output.data[MimeScan[k]],
                  metadata |-> output.metadata]>>
          ELSE << >>) \o PlotsOfOutput(output, k + 1)

RECURSIVE ExtractPlotsFromCell(_)
\* over the outputs of a code cell, in order
ExtractPlotsFromCell(outputs) ==
    IF outputs = << >> THEN << >>
    ELSE (IF Head(outputs).output_type \in ExtractedKinds
          THEN PlotsOfOutput(Head(outputs), 1)
          ELSE << >>) \o ExtractPlotsFromCell(Tail(outputs))

\* extracted_content as parse_notebook creates it
NewContent(title, doc) ==
    [title |-> title, plots |-> << >>, markdown |-> << >>,
     metadata |-> doc.metadata]

\* one iteration of the for loop of parse_notebook
ProcessCell(c, cell) ==
    IF cell.cell_type = "missing" THEN Raise("KeyError")
    ELSE IF cell.cell_type = "markdown"
    THEN LET t == ProcessMarkdownCell(cell)
         IN  IF ~t.ok THEN t
             ELSE IF Admitted(t.val)
                  THEN Ok([c EXCEPT !.markdown = Append(@, t.val)])
                  ELSE Ok(c)
    ELSE IF cell.cell_type = "code"
    THEN Ok([c EXCEPT !.plots = @ \o ExtractPlotsFromCell(cell.outputs)])
    ELSE Ok(c)

RECURSIVE ParseCells(_, _, _)
ParseCells(c, cells, i) ==
    IF i > Len(cells) THEN Ok(c)
    ELSE LET r == ProcessCell(c, cells[i])
         IN  IF r.ok THEN ParseCells(r.val, cells, i + 1) ELSE r

\* parse_notebook on an already loaded document, as one call
ParseDocument(doc) ==
    LET t == ExtractTitle(doc)
    IN  IF ~t.ok THEN t ELSE ParseCells(NewContent(t.val, doc), CellsOf(doc), 1)

----------------------------------------------------------------------------
(* _markdown_to_html *)

\* re.sub(r'^<prefix>(.+)$', r'<open>\1<close>', html, flags=re.MULTILINE) on
\* one line: the prefix, then at least one character, to the end of the line
HeaderLine(line, prefix, open, close) ==
    IF StartsAt(line, 1, prefix) /\ Len(line) > Len(prefix)
    THEN <<open>> \o SubSeq(line, Len(prefix) + 1, Len(line)) \o <<close>>
    ELSE line

HeaderSub(s, prefix, open, close) ==
    LET lines == SplitLines(s)
    IN  JoinLines([k \in 1..Len(lines) |->
                      HeaderLine(lines[k], prefix, open, close)])

\* where a non-greedy d(.+?)d can end when it starts at i: the closing
\* delimiter at j, at least one character between, none of them a newline
\* unless the pattern is compiled with DOTALL
DelimEnds(s, i, d, dotall) ==
    {j \in (i + Len(d) + 1)..Len(s) :
        /\ StartsAt(s, j, d)
        /\ dotall \/ \A k \in (i + Len(d))..(j - 1) : s[k] # NL}

DelimMatchAt(s, i, d, dotall) ==
    StartsAt(s, i, d) /\ DelimEnds(s, i, d, dotall) # {}

RECURSIVE DelimScan(_, _, _, _, _, _)
\* re.sub over s from position i: leftmost matches, not overlapping
DelimScan(s, i, d, dotall, open, close) ==
    IF i > Len(s) THEN << >>
    ELSE IF DelimMatchAt(s, i, d, dotall)
    THEN LET ends == DelimEnds(s, i, d, dotall)
             j == CHOOSE x \in ends : \A y \in ends : x <= y
         IN  <<open>> \o SubSeq(s, i + Len(d), j - 1) \o <<close>>
                \o DelimScan(s, j + Len(d), d, dotall, open, close)
    ELSE <<s[i]>> \o DelimScan(s, i + 1, d, dotall, open, close)

DelimSub(s, d, dotall, open, close) == DelimScan(s, 1, d, dotall, open, close)

RECURSIVE ParagraphBreaks(_, _)
\* html.replace('\n\n', '</p><p>')
ParagraphBreaks(s, i) ==
    IF i > Len(s) THEN << >>
    ELSE IF StartsAt(s, i, <<NL, NL>>)
    THEN <<"</p><p>">> \o ParagraphBreaks(s, i + 2)
    ELSE <<s[i]>> \o ParagraphBreaks(s, i + 1)

\* the grave accent character (it cannot be written inside a string here)
BackTick == "U+0060"

Headers(s) ==
    HeaderSub(HeaderSub(HeaderSub(s, <<"#", "#", "#", " ">>, "<h3>", "</h3>"),
                        <<"#", "#", " ">>, "<h2>", "</h2>"),
              <<"#", " ">>, "<h1>", "</h1>")

Bold(s) == DelimSub(s, <<"*", "*">>, FALSE, "<strong>", "</strong>")

Italic(s) == DelimSub(s, <<"*">>, FALSE, "<em>", "</em>")

CodeBlocks(s) ==
    DelimSub(s, <<BackTick, BackTick, BackTick>>, TRUE, "<pre><code>", "</code></pre>")

InlineCode(s) == DelimSub(s, <<BackTick>>, FALSE, "<code>", "</code>")

\* mutant: the italic rewrite applied before the bold rewrite
MarkdownToHtmlItalicFirst(markdown) ==
    <<"<p>">>
      \o ParagraphBreaks(InlineCode(CodeBlocks(Bold(Italic(Headers(markdown))))), 1)
      \o <<"</p>">>

MarkdownToHtml(markdown) ==
    <<"<p>">>
      \o ParagraphBreaks(InlineCode(CodeBlocks(Italic(Bold(Headers(markdown))))), 1)
      \o <<"</p>">>

----------------------------------------------------------------------------
(* _plot_to_html *)

Quote == "\""

\* if isinstance(data, list): data = ''.join(data)
PlotData(plot) ==
    IF plot.data.kind = "badlist" THEN Raise("TypeError")
    ELSE Ok(Concat(plot.data.frags))

PlotToHtml(plot) ==
    LET d == PlotData(plot)
    IN  IF ~d.ok THEN d
        ELSE IF plot.mime_type = "image/svg+xml"
        THEN Ok(<<"<div class=\"plot-svg\">">> \o d.val \o <<"</div>">>)
        ELSE Ok(<<"<img src=\"data:", plot.mime_type, ";base64,">> \o d.val
                  \o <<Quote, " alt=\"Plot\" class=\"plot-image\">">>)

----------------------------------------------------------------------------
(* _pair_content *)

PairStart == [md_idx |-> 0, plot_idx |-> 0, pairs |-> << >>]

\* the condition of the while loop
PairCond(markdown_items, plot_items, st) ==
    st.md_idx < Len(markdown_items) \/ st.plot_idx < Len(plot_items)

\* mutant: the last markdown entry collects every plot that is left
PairIterDrain(markdown_items, plot_items, st) ==
    LET current_md ==
            IF st.md_idx < Len(markdown_items)
            THEN Some(markdown_items[st.md_idx + 1]) ELSE None
        current_plots ==
            IF st.md_idx + 1 >= Len(markdown_items)
            THEN SubSeq(plot_items, st.plot_idx + 1, Len(plot_items))
            ELSE IF st.plot_idx < Len(plot_items)
            THEN <<plot_items[st.plot_idx + 1]>> ELSE << >>
    IN  [md_idx   |-> IF Truthy(current_md) THEN st.md_idx + 1 ELSE st.md_idx,
         plot_idx |-> st.plot_idx + Len(current_plots),
         pairs    |-> Append(st.pairs, <<current_md, current_plots>>)]

\* one iteration of the while loop (the indices are 0-based, as in the source)
PairIter(markdown_items, plot_items, st) ==
    LET current_md ==
            IF st.md_idx < Len(markdown_items)
            THEN Some(markdown_items[st.md_idx + 1]) ELSE None
        take == st.plot_idx < Len(plot_items)
        current_plots ==
            IF take THEN <<plot_items[st.plot_idx + 1]>> ELSE << >>
    IN  [md_idx   |-> IF Truthy(current_md) THEN st.md_idx + 1 ELSE st.md_idx,
         plot_idx |-> IF take THEN st.plot_idx + 1 ELSE st.plot_idx,
         pairs    |-> Append(st.pairs, <<current_md, current_plots>>)]

RECURSIVE PairRun(_, _, _, _)
PairRun(markdown_items, plot_items, st, fuel) ==
    IF fuel = 0 \/ ~PairCond(markdown_items, plot_items, st) THEN st.pairs
    ELSE PairRun(markdown_items, plot_items,
                 PairIter(markdown_items, plot_items, st), fuel - 1)

\* _pair_content as one call (cut off after MaxIter iterations)
PairContent(c) == PairRun(c.markdown, c.plots, PairStart, MaxIter)

----------------------------------------------------------------------------
(* the templates *)

RECURSIVE AllPlotsOk(_)
AllPlotsOk(plots) ==
    plots = << >> \/ (PlotData(Head(plots)).ok /\ AllPlotsOk(Tail(plots)))

PageHead(title, css) ==
    << <<"<!DOCTYPE html>">>,
       <<"<html lang='en'>">>,
       <<"<head>">>,
       <<"    <meta charset='UTF-8'>">>,
       <<"    <meta name='viewport' content='width=device-width, initial-scale=1.0'>">>,
       <<"    <title>">> \o title \o <<"</title>">>,
       <<"    <style>">>,
       <<css>>,
       <<"    </style>">>,
       <<"</head>">>,
       <<"<body>">> >>

RECURSIVE PlotLines(_)
\* for plot in plots: html_parts.append(self._plot_to_html(plot))
PlotLines(plots) ==
    IF plots = << >> THEN << >>
    ELSE <<PlotToHtml(Head(plots)).val>> \o PlotLines(Tail(plots))

\* the html_parts of one section of the default template
SectionParts(i, pair) ==
    << <<"        ", "<div class='section' id='section-", ToString(i), "'>">> >>
    \o (IF Truthy(pair[1])
        THEN << <<"            <div class='markdown-content'>">>,
                <<"                ">> \o MarkdownToHtml(pair[1].text),
                <<"            </div>">> >>
        ELSE << >>)
    \o (IF pair[2] # << >>
        THEN << <<"            <div class='plots-container'>">> >>
             \o PlotLines(pair[2])
             \o << <<"            </div>">> >>
        ELSE << >>)
    \o << <<"        ", "</div>">> >>

RECURSIVE Sections(_, _)
\* for i, (markdown, plots) in enumerate(pairs), from the pair at position k
Sections(prs, k) ==
    IF k > Len(prs) THEN << >>
    ELSE SectionParts(k - 1, prs[k]) \o Sections(prs, k + 1)

RECURSIVE PairedPlots(_)
PairedPlots(prs) ==
    IF prs = << >> THEN << >> ELSE Head(prs)[2] \o PairedPlots(Tail(prs))

\* _default_template, given what _pair_content returned and the clock reading
DefaultFromPairs(c, prs, now) ==
    IF ~AllPlotsOk(PairedPlots(prs)) THEN Raise("TypeError")
    ELSE Ok(JoinLines(
            PageHead(c.title, "<default css>")
            \o << <<"    <div class='container'>">>,
                  <<"        ", "<h1 class='main-title'>">> \o c.title \o <<"</h1>">>,
                  <<"        <p class='generated-info'>Generated on ",
                    ToString(now), "</p>">> >>
            \o Sections(prs, 1)
            \o << <<"    </div>">>, <<"</body>">>, <<"</html>">> >>))

DefaultTemplate(c, now) == DefaultFromPairs(c, PairContent(c), now)

RECURSIVE ContentLines(_, _, _)
\* one html_parts entry per markdown entry that passes the template's test
ContentLines(markdown, open, skip_blank) ==
    IF markdown = << >> THEN << >>
    ELSE (IF skip_blank /\ Strip(Head(markdown)) = << >>
          THEN << >>
          ELSE << open \o MarkdownToHtml(Head(markdown)) \o <<"</div>">> >>)
         \o ContentLines(Tail(markdown), open, skip_blank)

RECURSIVE PlotBoxes(_, _)
PlotBoxes(plots, open) ==
    IF plots = << >> THEN << >>
    ELSE << open \o PlotToHtml(Head(plots)).val \o <<"</div>">> >>
         \o PlotBoxes(Tail(plots), open)

\* mutant: the plots are emitted before the markdown entries
MinimalPlotsFirst(c) ==
    IF ~AllPlotsOk(c.plots) THEN Raise("TypeError")
    ELSE Ok(JoinLines(
            PageHead(c.title, "<minimal css>")
            \o << <<"    ", "<h1>">> \o c.title \o <<"</h1>">> >>
            \o PlotBoxes(c.plots, <<"    ", "<div class='plot'>">>)
            \o ContentLines(c.markdown, <<"    ", "<div class='content'>">>, FALSE)
            \o << <<"</body>">>, <<"</html>">> >>))

MinimalTemplate(c) ==
    IF ~AllPlotsOk(c.plots) THEN Raise("TypeError")
    ELSE Ok(JoinLines(
            PageHead(c.title, "<minimal css>")
            \o << <<"    ", "<h1>">> \o c.title \o <<"</h1>">> >>
            \o ContentLines(c.markdown, <<"    ", "<div class='content'>">>, FALSE)
            \o PlotBoxes(c.plots, <<"    ", "<div class='plot'>">>)
            \o << <<"</body>">>, <<"</html>">> >>))

GridTemplate(c) ==
    IF ~AllPlotsOk(c.plots) THEN Raise("TypeError")
    ELSE Ok(JoinLines(
            PageHead(c.title, "<grid css>")
            \o << <<"    <div class='grid-container'>">>,
                  <<"        ", "<h1 class='header'>">> \o c.title \o <<"</h1>">> >>
            \o ContentLines(c.markdown, <<"        ", "<div class='grid-item text-item'>">>, TRUE)
            \o PlotBoxes(c.plots, <<"        ", "<div class='grid-item plot-item'>">>)
            \o << <<"    </div>">>, <<"</body>">>, <<"</html>">> >>))

\* mutant: an unknown name falls to the minimal template
LayoutElseMinimal(name) ==
    IF name = "default" THEN "default"
    ELSE IF name = "grid" THEN "grid"
    ELSE "minimal"

\* which template method _create_html_template calls
Layout(name) ==
    IF name = "minimal" THEN "minimal"
    ELSE IF name = "grid" THEN "grid"
    ELSE "default"

\* _create_html_template as one call
CreateHtmlTemplate(c, name, now) ==
    IF Layout(name) = "minimal" THEN MinimalTemplate(c)
    ELSE IF Layout(name) = "grid" THEN GridTemplate(c)
    ELSE DefaultTemplate(c, now)

----------------------------------------------------------------------------
(* Input documents *)

Src(kind, frags) == [kind |-> kind, frags |-> frags]

Markdown(source) ==
    [cell_type |-> "markdown", source |-> source, outputs |-> << >>]

Code(outputs) ==
    [cell_type |-> "code", source |-> Src("list", << >>), outputs |-> outputs]

Payload(kind, frags) == [kind |-> kind, frags |-> frags]

NoData == [m \in {} |-> Payload("str", << >>)]

Output(type, data, metadata) ==
    [output_type |-> type, data |-> data, metadata |-> metadata]

\* "# T\n\nHello **world**"
SmokeText ==
    <<"#", " ", "T", NL, NL, "H", "e", "l", "l", "o", " ",
      "*", "*", "w", "o", "r", "l", "d", "*", "*">>

AAAA == <<"A", "A", "A", "A">>

OutPng == Output("display_data",
                 "image/png" :> Payload("str", <<AAAA>>), "{}")

OutPngSvg ==
    Output("execute_result",
           ("image/svg+xml" :> Payload("list", << <<"<", "s", "v">>, <<"g", ">">> >>))
           @@ ("image/png" :> Payload("str", << <<"Q", "Q">> >>)),
           "m1")

OutError == Output("error", "image/png" :> Payload("str", << <<"E">> >>), "{}")

OutStream == Output("stream", NoData, "{}")

OutJpegText ==
    Output("display_data",
           ("text/plain" :> Payload("str", << <<"t">> >>))
           @@ ("image/jpeg" :> Payload("list", << <<"J">>, <<"J">> >>)),
           "m2")

OutBadPng == Output("display_data",
                    "image/png" :> Payload("badlist", << >>), "{}")

MarkdownCells ==
    { Markdown(Src("str", <<SmokeText>>)),
      Markdown(Src("str", << <<" ", NL>> >>)),
      Markdown(Src("list", << >>)),
      Markdown(Src("absent", << >>)),
      Markdown(Src("list", << <<"A">> >>)),
      Markdown(Src("list", << <<"*", "B", "*", NL>>, <<NL, BackTick, "c", BackTick>> >>)),
      Markdown(Src("badlist", << >>)) }

CodeCells ==
    { Code(<<OutPng>>),
      Code(<<OutError, OutPngSvg>>),
      Code(<<OutJpegText, OutStream>>),
      Code(<<OutBadPng>>),
      Code(<< >>) }

OtherCells ==
    { [cell_type |-> "raw", source |-> Src("list", << <<"r">> >>), outputs |-> << >>],
      [cell_type |-> "missing", source |-> Src("absent", << >>), outputs |-> << >>] }

CellSet == MarkdownCells \cup CodeCells \cup OtherCells

SeqsUpTo(S, n) == UNION {[1..k -> S] : k \in 0..n}

Doc(cells) == [has_cells |-> TRUE, cells |-> cells, metadata |-> "meta"]

NoCellsDoc == [has_cells |-> FALSE, cells |-> << >>, metadata |-> "meta"]

Docs == {Doc(cells) : cells \in SeqsUpTo(CellSet, MaxCells)} \cup {NoCellsDoc}

File(exists, json_ok, doc) == [exists |-> exists, json_ok |-> json_ok, doc |-> doc]

Files ==
    {File(TRUE, TRUE, d) : d \in Docs}
      \cup {File(FALSE, FALSE, NoCellsDoc), File(TRUE, FALSE, NoCellsDoc)}

\* the choices argparse admits for --template
Choices == {"default", "minimal", "grid"}

Clocks == {0, 1}

EmptyContent == [title |-> << >>, plots |-> << >>, markdown |-> << >>, metadata |-> "none"]

NoFile == [opened |-> FALSE, text |-> << >>]

NewGenerator == [plots |-> << >>, markdown_content |-> << >>]

NoRef == [set |-> FALSE, doc |-> NoCellsDoc, result |-> Raise("none"), at |-> 0]

----------------------------------------------------------------------------
(* main() *)

\* mutant: the handler catches the JSON error only
CaughtJsonOnly(exc) == exc = "JSONDecodeError"

\* except Exception as e: which exceptions the handler of main catches
CaughtByMain(exc) ==
    exc \in {"JSONDecodeError", "KeyError", "TypeError", "OSError"}

\* an exception raised inside the try block of main, in the step named stage
Except(exc, stage) ==
    /\ failure' = stage
    /\ pc' = "exit"
    /\ IF CaughtByMain(exc)
       THEN messages' = Append(messages, "error") /\ UNCHANGED uncaught
       ELSE uncaught' = TRUE /\ UNCHANGED messages

\* if not Path(args.notebook).exists(): print(...); return
CheckExists ==
    /\ pc = "start"
    /\ IF notebook.exists
       THEN /\ pc' = "load"
            /\ messages' = Append(messages, "parsing")
            /\ UNCHANGED failure
       ELSE /\ pc' = "exit"
            /\ messages' = Append(messages, "not found")
            /\ failure' = "missing"
    /\ UNCHANGED <<notebook, template, clock, content, cell_idx, md_idx, plot_idx,
                   pairs, html, out, uncaught, self, ref, last, calls>>

\* parse_notebook up to the for loop: json.load, _extract_title
LoadNotebook ==
    /\ pc = "load"
    /\ IF ~notebook.json_ok
       THEN Except("JSONDecodeError", "parse") /\ UNCHANGED <<content, cell_idx>>
       ELSE LET t == ExtractTitle(notebook.doc)
            IN  IF t.ok
                THEN /\ content' = NewContent(t.val, notebook.doc)
                     /\ cell_idx' = 1
                     /\ pc' = "cells"
                     /\ UNCHANGED <<messages, failure, uncaught>>
                ELSE Except(t.exc, "parse") /\ UNCHANGED <<content, cell_idx>>
    /\ UNCHANGED <<notebook, template, clock, md_idx, plot_idx, pairs, html, out,
                   self, ref, last, calls>>

\* one iteration of the for loop of parse_notebook
ParseCell ==
    /\ pc = "cells"
    /\ cell_idx <= Len(CellsOf(notebook.doc))
    /\ LET r == ProcessCell(content, CellsOf(notebook.doc)[cell_idx])
       IN  IF r.ok
           THEN /\ content' = r.val
                /\ cell_idx' = cell_idx + 1
                /\ UNCHANGED <<pc, messages, failure, uncaught>>
           ELSE Except(r.exc, "parse") /\ UNCHANGED <<content, cell_idx>>
    /\ UNCHANGED <<notebook, template, clock, md_idx, plot_idx, pairs, html, out,
                   self, ref, last, calls>>

\* parse_notebook returns; main prints the counts and the template
ParseReturn ==
    /\ pc = "cells"
    /\ cell_idx > Len(CellsOf(notebook.doc))
    /\ pc' = "render"
    /\ messages' = messages \o <<"found", "generating">>
    /\ UNCHANGED <<notebook, template, clock, content, cell_idx, md_idx, plot_idx,
                   pairs, html, out, failure, uncaught, self, ref, last, calls>>

\* _create_html_template with the minimal or the grid template
RenderFlat ==
    /\ pc = "render"
    /\ Layout(template) # "default"
    /\ LET r == CreateHtmlTemplate(content, template, clock)
       IN  IF r.ok
           THEN /\ html' = r.val
                /\ pc' = "write"
                /\ UNCHANGED <<messages, failure, uncaught>>
           ELSE Except(r.exc, "render") /\ UNCHANGED html
    /\ UNCHANGED <<notebook, template, clock, content, cell_idx, md_idx, plot_idx,
                   pairs, out, self, ref, last, calls>>

\* _create_html_template with the default template: _pair_content starts
PairBegin ==
    /\ pc = "render"
    /\ Layout(template) = "default"
    /\ pc' = "pair"
    /\ md_idx' = PairStart.md_idx
    /\ plot_idx' = PairStart.plot_idx
    /\ pairs' = PairStart.pairs
    /\ UNCHANGED <<notebook, template, clock, content, cell_idx, html, out,
                   messages, failure, uncaught, self, ref, last, calls>>

PairState == [md_idx |-> md_idx, plot_idx |-> plot_idx, pairs |-> pairs]

\* one iteration of the while loop of _pair_content
PairStep ==
    /\ pc = "pair"
    /\ PairCond(content.markdown, content.plots, PairState)
    /\ Len(pairs) < MaxIter
    /\ LET st == PairIter(content.markdown, content.plots, PairState)
       IN  /\ md_idx' = st.md_idx
           /\ plot_idx' = st.plot_idx
           /\ pairs' = st.pairs
    /\ UNCHANGED <<pc, notebook, template, clock, content, cell_idx, html, out,
                   messages, failure, uncaught, self, ref, last, calls>>

\* _pair_content returns; _default_template builds the page
PairReturn ==
    /\ pc = "pair"
    /\ ~PairCond(content.markdown, content.plots, PairState)
    /\ LET r == DefaultFromPairs(content, pairs, clock)
       IN  IF r.ok
           THEN /\ html' = r.val
                /\ pc' = "write"
                /\ UNCHANGED <<messages, failure, uncaught>>
           ELSE Except(r.exc, "render") /\ UNCHANGED html
    /\ UNCHANGED <<notebook, template, clock, content, cell_idx, md_idx, plot_idx,
                   pairs, out, self, ref, last, calls>>

\* with open(output_path, 'w') as f: f.write(html_content), and the two prints
WriteOutput ==
    /\ pc = "write"
    /\ \E outcome \in {"written", "open fails", "write fails"} :
          IF outcome = "written"
          THEN /\ out' = [opened |-> TRUE, text |-> html]
               /\ messages' = messages \o <<"generated", "created">>
               /\ pc' = "exit"
               /\ UNCHANGED <<failure, uncaught>>
          ELSE /\ out' = [opened |-> (outcome = "write fails"), text |-> << >>]
               /\ Except("OSError", "write")
    /\ UNCHANGED <<notebook, template, clock, content, cell_idx, md_idx, plot_idx,
                   pairs, html, self, ref, last, calls>>

Init ==
    /\ pc = "start"
    /\ notebook \in Files
    /\ template \in Choices
    /\ clock = 0
    /\ content = EmptyContent
    /\ cell_idx = 0
    /\ md_idx = 0
    /\ plot_idx = 0
    /\ pairs = << >>
    /\ html = << >>
    /\ out = NoFile
    /\ messages = << >>
    /\ failure = "none"
    /\ uncaught = FALSE
    /\ self = NewGenerator
    /\ ref = NoRef
    /\ last = NoRef
    /\ calls = 0

Next ==
    \/ CheckExists
    \/ LoadNotebook
    \/ ParseCell
    \/ ParseReturn
    \/ RenderFlat
    \/ PairBegin
    \/ PairStep
    \/ PairReturn
    \/ WriteOutput

Spec == Init /\ [][Next]_vars

\* a running while loop of _pair_content goes on to its next iteration
LiveSpec == Spec /\ WF_vars(PairStep)

----------------------------------------------------------------------------
(* Claims about main() and parse_notebook, under Spec *)

\* parse_notebook has returned a content record
Parsed ==
    \/ pc \in {"render", "pair", "write"}
    \/ pc = "exit" /\ failure \in {"none", "render", "write"}

TheCells == CellsOf(notebook.doc)

\* C3: when the input file is missing, or parsing or rendering fails, the
\* output file is never opened, a message reports the failure and no exception
\* leaves main; the output file is opened only once the whole document has
\* been parsed and the whole HTML text has been built.
C3_NoOutputOnFailure ==
    /\ ~uncaught
    /\ failure \in {"missing", "parse", "render"} =>
          /\ out = NoFile
          /\ pc = "exit"
          /\ messages # << >>
          /\ messages[Len(messages)] =
                (IF failure = "missing" THEN "not found" ELSE "error")
    /\ (out.opened \/ pc = "write") =>
          /\ notebook.exists /\ notebook.json_ok
          /\ cell_idx = Len(TheCells) + 1
          /\ \A k \in 1..Len(content.plots) : content.plots[k].data.kind # "badlist"
          /\ html # << >>
          /\ html[Len(html)] = "</html>"
    /\ out.text # << >> => out.text = html

C3_Witness ==
    /\ pc = "exit"
    /\ failure = "render"
    /\ out = NoFile
    /\ messages[Len(messages)] = "error"

\* the code cell outputs that parse_notebook reads plots from, as
\* <<cell, output, position of the MIME type in the claimed order>>
ClaimedMimeOrder == <<"image/png", "image/jpeg", "image/svg+xml">>

SitesOfCell(c) ==
    {t \in {c} \X (1..Len(TheCells[c].outputs)) \X (1..Len(ClaimedMimeOrder)) :
        /\ TheCells[c].outputs[t[2]].output_type
              \in {"display_data", "execute_result"}
        /\ ClaimedMimeOrder[t[3]] \in DOMAIN TheCells[c].outputs[t[2]].data}

PlotSites ==
    UNION {SitesOfCell(c) :
              c \in {k \in 1..Len(TheCells) : TheCells[k].cell_type = "code"}}

Before(t, u) ==
    \/ t[1] < u[1]
    \/ t[1] = u[1] /\ t[2] < u[2]
    \/ t[1] = u[1] /\ t[2] = u[2] /\ t[3] < u[3]

SiteRank(t) == Cardinality({u \in PlotSites : Before(u, t)}) + 1

\* C4: the plot list is the concatenation, over code cells in document order,
\* over their display_data / execute_result outputs in order, over png, jpeg,
\* svg in that order, of one plot per MIME type present in the output's data.
C4_PlotExtraction ==
    Parsed =>
        /\ Len(content.plots) = Cardinality(PlotSites)
        /\ \A t \in PlotSites :
              LET o == TheCells[t[1]].outputs[t[2]]
              IN  content.plots[SiteRank(t)] =
                     [mime_type |-> ClaimedMimeOrder[t[3]],
                      data |-> o.data[ClaimedMimeOrder[t[3]]],
                      metadata |-> o.metadata]

\* an output with png and svg gave the png plot, then the svg plot, and an
\* error output that carries an image gave none
C4_Witness ==
    /\ Parsed
    /\ TheCells = <<Code(<<OutError, OutPngSvg>>), Code(<<OutJpegText, OutStream>>)>>
    /\ Len(content.plots) = 3
    /\ content.plots[1].mime_type = "image/png"
    /\ content.plots[2].mime_type = "image/svg+xml"
    /\ content.plots[3].mime_type = "image/jpeg"

\* the markdown cells whose joined source is not blank
KeptCells ==
    {k \in 1..Len(TheCells) :
        /\ TheCells[k].cell_type = "markdown"
        /\ \E x \in 1..Len(Concat(TheCells[k].source.frags)) :
              Concat(TheCells[k].source.frags)[x] \notin Whitespace}

KeptRank(k) == Cardinality({j \in KeptCells : j < k}) + 1

\* C5: no markdown entry is empty or whitespace-only, and the markdown list
\* is, in document order, the joined source of each markdown cell whose
\* trimmed text is not empty.
C5_MarkdownFiltering ==
    Parsed =>
        /\ \A k \in 1..Len(content.markdown) :
              \E x \in 1..Len(content.markdown[k]) :
                  content.markdown[k][x] \notin Whitespace
        /\ Len(content.markdown) = Cardinality(KeptCells)
        /\ \A k \in KeptCells :
              content.markdown[KeptRank(k)] = Concat(TheCells[k].source.frags)

C5_Witness ==
    /\ Parsed
    /\ Len(TheCells) = 2
    /\ TheCells[1] = Markdown(Src("str", << <<" ", NL>> >>))
    /\ TheCells[2].cell_type = "markdown"
    /\ Len(TheCells[2].source.frags) = 2
    /\ Len(content.markdown) = 1

\* the smoke document of C8
SmokeDoc == Doc(<<Markdown(Src("str", <<SmokeText>>)), Code(<<OutPng>>)>>)

Positions(s, p) == {i \in 1..Len(s) : StartsAt(s, i, p)}

SectionOpen == <<"<div class='section' id='section-">>

SectionClose == <<NL, "        ", "</div>">>

\* p lies in s between positions lo and hi
Within(s, p, lo, hi) ==
    \E i \in Positions(s, p) : lo < i /\ i + Len(p) - 1 < hi

\* a <p>...</p> paragraph of s, between lo and hi, that contains p
ParagraphWith(s, p, lo, hi) ==
    \E a, b \in 1..Len(s) :
        /\ lo < a /\ a < b /\ b < hi
        /\ s[a] \in {"<p>", "</p><p>"}
        /\ s[b] \in {"</p>", "</p><p>"}
        /\ \A k \in (a + 1)..(b - 1) : s[k] \notin {"<p>", "</p>", "</p><p>"}
        /\ Within(s, p, a, b)

C10_PairingTerminates ==
    /\ [][pc = "pair" /\ pairs' # pairs =>
            /\ md_idx' > md_idx \/ plot_idx' > plot_idx
            /\ Len(pairs') = Len(pairs) + 1]_vars
    /\ [](pc = "pair" =>
            Len(pairs) <= Max(Len(content.markdown), Len(content.plots)))
    /\ [](pc = "pair" /\ ~PairCond(content.markdown, content.plots, PairState) =>
            /\ Len(pairs) = Max(Len(content.markdown), Len(content.plots))
            /\ md_idx = Len(content.markdown)
            /\ plot_idx = Len(content.plots))
    /\ (pc = "pair") ~>
          (pc = "pair" /\ ~PairCond(content.markdown, content.plots, PairState))

C10_Witness ==
    /\ pc = "pair"
    /\ ~PairCond(content.markdown, content.plots, PairState)
    /\ Len(content.markdown) = 1
    /\ Len(content.plots) = 2
    /\ pairs[2] = <<None, <<content.plots[2]>> >>

----------------------------------------------------------------------------
(* _pair_content on every pair of lists: SpecPair *)

Plot(mime, payload) == [mime_type |-> mime, data |-> payload, metadata |-> "{}"]

P1 == Plot("image/png", Payload("str", <<AAAA>>))

P2 == Plot("image/svg+xml", Payload("list", << <<"<", "s", "v">>, <<"g", ">">> >>))

P3 == Plot("image/jpeg", Payload("list", << <<"J">>, <<"J">> >>))

Record(title, markdown, plots) ==
    [title |-> title, plots |-> plots, markdown |-> markdown, metadata |-> "meta"]

\* non-empty strings, a whitespace-only one among them
PairMarkdown == {<<"A">>, <<"B">>, <<" ">>}

PairPlots == {P1, P2, P3}

PairRecords ==
    {Record(<<"T">>, m, p) :
        m \in SeqsUpTo(PairMarkdown, MaxMd), p \in SeqsUpTo(PairPlots, MaxPlots)}

\* the renderer is handed the content record c, the template name and the clock
RenderCall(records, names, clocks) ==
    /\ pc = "render"
    /\ content \in records
    /\ template \in names
    /\ clock \in clocks
    /\ notebook = File(TRUE, TRUE, NoCellsDoc)
    /\ cell_idx = 0
    /\ md_idx = 0
    /\ plot_idx = 0
    /\ pairs = << >>
    /\ html = << >>
    /\ out = NoFile
    /\ messages = << >>
    /\ failure = "none"
    /\ uncaught = FALSE
    /\ self = NewGenerator
    /\ ref = NoRef
    /\ last = NoRef
    /\ calls = 0

InitPair == RenderCall(PairRecords, {"default"}, {0})

NextPair ==
    \/ PairBegin
    \/ PairStep
    \/ PairReturn

SpecPair == InitPair /\ [][NextPair]_vars

\* _pair_content has returned
PairsDone ==
    \/ pc = "pair" /\ ~PairCond(content.markdown, content.plots, PairState)
    \/ pc = "write"

\* C1: for markdown list M of non-empty strings and plot list P the result
\* has max(|M|,|P|) pairs, and pair i (0-based) is
\* (M[i] if i < |M| else None, [P[i]] if i < |P| else []).
C1_Pairing ==
    PairsDone =>
        /\ Len(pairs) = Max(Len(content.markdown), Len(content.plots))
        /\ \A i \in 0..(Len(pairs) - 1) :
              /\ pairs[i + 1][1] =
                    (IF i < Len(content.markdown)
                     THEN Some(content.markdown[i + 1]) ELSE None)
              /\ pairs[i + 1][2] =
                    (IF i < Len(content.plots)
                     THEN <<content.plots[i + 1]>> ELSE << >>)
              /\ Len(pairs[i + 1][2]) <= 1

C1_Witness ==
    /\ pc = "write"
    /\ content.markdown = << <<"A">>, <<"B">> >>
    /\ content.plots = <<P1, P2, P3>>
    /\ pairs = << <<Some(<<"A">>), <<P1>> >>,
                  <<Some(<<"B">>), <<P2>> >>,
                  <<None, <<P3>> >> >>

----------------------------------------------------------------------------
(* the renderer on content records as parse_notebook builds them: SpecRender *)

\* markdown entries that are not blank
RenderMarkdown == {<<"A">>, SmokeText}

RenderPlots == {P1, P2}

RenderRecords ==
    {Record(t, m, p) :
        t \in {<<"T">>, Dashboard},
        m \in SeqsUpTo(RenderMarkdown, MaxMd),
        p \in SeqsUpTo(RenderPlots, MaxPlots)}

TemplateNames == Choices \cup {"fancy"}

InitRender == RenderCall(RenderRecords, TemplateNames, Clocks)

NextRender ==
    \/ RenderFlat
    \/ PairBegin
    \/ PairStep
    \/ PairReturn

SpecRender == InitRender /\ [][NextRender]_vars

\* C2: a template name other than default, minimal, grid renders without an
\* error to the very text the default template gives for the same content
\* record at the same clock reading; minimal and grid give another layout.
C2_TemplateFallback ==
    /\ failure = "none"
    /\ ~uncaught
    /\ pc = "write" =>
          /\ template \notin {"default", "minimal", "grid"} =>
                html = DefaultTemplate(content, clock).val
          /\ template \in {"minimal", "grid"} =>
                html # DefaultTemplate(content, clock).val

C2_Witness ==
    /\ pc = "write"
    /\ template = "fancy"
    /\ Len(pairs) = 3
    /\ Len(content.markdown) = 2
    /\ html = DefaultTemplate(content, clock).val

\* the opening tags of a flat layout
FlatTags(name) ==
    IF name = "minimal"
    THEN [md |-> "<div class='content'>", plot |-> "<div class='plot'>",
          title |-> "<h1>"]
    ELSE [md |-> "<div class='grid-item text-item'>",
          plot |-> "<div class='grid-item plot-item'>",
          title |-> "<h1 class='header'>"]

\* where the content elements of the page start
Elements(s, tags) == {i \in 1..Len(s) : s[i] \in {tags.md, tags.plot}}

\* the n-th smallest member of a set of positions
Nth(S, n) == CHOOSE i \in S : Cardinality({j \in S : j < i}) = n - 1

\* C9: the minimal and the grid template emit, after the title heading, one
\* element per markdown entry in list order, then one element per plot in
\* list order: |markdown| + |plots| elements, none dropped or repeated.
C9_FlatLayouts ==
    (pc = "write" /\ template \in {"minimal", "grid"}) =>
        LET tags == FlatTags(template)
            E == Elements(html, tags)
            nm == Len(content.markdown)
        IN  /\ Cardinality(E) = nm + Len(content.plots)
            /\ \E h \in Positions(html, <<tags.title>> \o content.title \o <<"</h1>">>) :
                  \A i \in E : h < i
            /\ \A k \in 1..nm :
                  StartsAt(html, Nth(E, k),
                           <<tags.md>> \o MarkdownToHtml(content.markdown[k])
                              \o <<"</div>">>)
            /\ \A k \in 1..Len(content.plots) :
                  StartsAt(html, Nth(E, nm + k),
                           <<tags.plot>> \o PlotToHtml(content.plots[k]).val
                              \o <<"</div>">>)

C9_Witness ==
    /\ pc = "write"
    /\ template = "grid"
    /\ content.markdown = <<SmokeText, <<"A">> >>
    /\ content.plots = <<P2, P1>>
    /\ Cardinality(Elements(html, FlatTags("grid"))) = 4

----------------------------------------------------------------------------
(* _extract_title on markdown cells of every shape: SpecTitle *)

TitleAlphabet == {"#", " ", NL, "x"}

\* the line `# My Title`
TitleLine == <<"#", " ", "M", "y", " ", "T", "i", "t", "l", "e">>

MyTitle == <<"M", "y", " ", "T", "i", "t", "l", "e">>

\* `# My Title` on a line of its own, with text before and after it
Surrounded ==
    {pre \o TitleLine \o post :
        pre \in {<< >>} \cup {t \o <<NL>> : t \in SeqsUpTo(TitleAlphabet, MaxBefore)},
        post \in {<< >>} \cup {<<NL>> \o t : t \in SeqsUpTo(TitleAlphabet, MaxAfter)}}

FreeTexts == SeqsUpTo(TitleAlphabet, MaxBefore + 1)

OtherHeading == Markdown(Src("list", << <<"#", " ", "Z">> >>))

TitleDocs ==
    UNION {{Doc(<<Markdown(Src("str", <<t>>))>>),
            Doc(<<Code(<< >>), Markdown(Src("list", <<t>>))>>),
            Doc(<<Markdown(Src("str", <<t>>)), OtherHeading>>)} :
              t \in Surrounded \cup FreeTexts}
      \cup {NoCellsDoc, Doc(<< >>), Doc(<<Code(<<OutPng>>)>>)}

InitTitle ==
    /\ pc = "start"
    /\ notebook \in {File(TRUE, TRUE, d) : d \in TitleDocs}
    /\ template = "default"
    /\ clock = 0
    /\ content = EmptyContent
    /\ cell_idx = 0
    /\ md_idx = 0
    /\ plot_idx = 0
    /\ pairs = << >>
    /\ html = << >>
    /\ out = NoFile
    /\ messages = << >>
    /\ failure = "none"
    /\ uncaught = FALSE
    /\ self = NewGenerator
    /\ ref = NoRef
    /\ last = NoRef
    /\ calls = 0

NextTitle ==
    \/ CheckExists
    \/ LoadNotebook

SpecTitle == InitTitle /\ [][NextTitle]_vars

MarkdownAt == {k \in 1..Len(TheCells) : TheCells[k].cell_type = "markdown"}

\* the joined source of the first markdown cell
FirstMarkdownText ==
    Concat(TheCells[CHOOSE k \in MarkdownAt : \A j \in MarkdownAt : k <= j].source.frags)

\* a line that by itself matches ^#\s+(.+)$
H1Line(line) == Len(line) >= 3 /\ line[1] = "#" /\ line[2] \in Whitespace

\* a line that is '#' alone or starts with '#' and a whitespace character
HashLine(line) ==
    /\ line # << >>
    /\ line[1] = "#"
    /\ Len(line) = 1 \/ line[2] \in Whitespace

\* the lines of a text, as a set
LinesOf(text) == {SplitLines(text)[k] : k \in 1..Len(SplitLines(text))}

\* `# My Title` is line k of the text, and no line before it is a HashLine
TitleLineFirst(text) ==
    \E k \in 1..Len(SplitLines(text)) :
        /\ SplitLines(text)[k] = TitleLine
        /\ \A j \in 1..(k - 1) : ~HashLine(SplitLines(text)[j])

\* C6 as stated: the first markdown cell holds the line `# My Title` => the
\* title is "My Title" whatever surrounds the line; no markdown cell holds
\* an H1 line => the title is "Dashboard".
C6_AsStated ==
    pc = "cells" =>
        /\ (MarkdownAt # {} /\ TitleLine \in LinesOf(FirstMarkdownText))
              => content.title = MyTitle
        /\ (\A k \in MarkdownAt :
               \A l \in LinesOf(Concat(TheCells[k].source.frags)) : ~H1Line(l))
              => content.title = Dashboard

\* What _extract_title does guarantee: the first markdown cell holds the line `# My Title` and no
\* earlier line of that cell is '#' alone or starts with '#' and whitespace
\* => the title is "My Title"; no markdown cell holds a line that is '#'
\* alone or starts with '#' and whitespace => the title is "Dashboard".
TitleOfFirstHashLine ==
    pc = "cells" =>
        /\ (MarkdownAt # {} /\ TitleLineFirst(FirstMarkdownText))
              => content.title = MyTitle
        /\ (\A k \in MarkdownAt :
               \A l \in LinesOf(Concat(TheCells[k].source.frags)) : ~HashLine(l))
              => content.title = Dashboard

TitleOfFirstHashLineReached ==
    /\ pc = "cells"
    /\ Len(TheCells) = 2
    /\ TheCells[1].cell_type = "code"
    /\ FirstMarkdownText = <<"x", " ", NL>> \o TitleLine \o <<NL, "#">>
    /\ content.title = MyTitle

----------------------------------------------------------------------------
(* calls on one generator object: SpecApi *)

ApiDocs ==
    {NoCellsDoc, SmokeDoc,
     Doc(<<Markdown(Src("list", << <<"A">> >>))>>),
     Doc(<<Code(<<OutError, OutPngSvg>>)>>),
     Doc(<<Markdown(Src("badlist", << >>))>>),
     Doc(<<Code(<<OutBadPng>>)>>)}

\* mutant: the instance fields are the accumulators of the extraction
ParseNotebookAccum(g, doc) ==
    LET r == ParseDocument(doc)
    IN  IF ~r.ok THEN [self |-> g, result |-> r]
        ELSE LET plots == g.plots \o r.val.plots
                 markdown == g.markdown_content \o r.val.markdown
             IN  [self |-> [plots |-> plots, markdown_content |-> markdown],
                  result |-> Ok([r.val EXCEPT !.plots = plots,
                                              !.markdown = markdown])]

\* generator.parse_notebook(path) on a readable file that holds doc: the
\* generator's fields afterwards, and what the call returns or raises
ParseNotebookCall(g, doc) == [self |-> g, result |-> ParseDocument(doc)]

\* generator.generate_html_dashboard(content, output_path, template) up to
\* the write: the generator's fields afterwards, and the text or the exception
GenerateCall(g, c, name, now) ==
    [self |-> g, result |-> CreateHtmlTemplate(c, name, now)]

ApiParse ==
    /\ pc = "idle"
    /\ calls < MaxCalls
    /\ \E d \in ApiDocs :
          LET r == ParseNotebookCall(self, d)
              this == [set |-> TRUE, doc |-> d, result |-> r.result, at |-> calls + 1]
          IN  /\ self' = r.self
              /\ last' = this
              /\ ref' = IF ref.set THEN ref ELSE this
              /\ content' = IF r.result.ok THEN r.result.val ELSE content
    /\ calls' = calls + 1
    /\ UNCHANGED <<pc, notebook, template, clock, cell_idx, md_idx, plot_idx,
                   pairs, html, out, messages, failure, uncaught>>

ApiGenerate ==
    /\ pc = "idle"
    /\ calls < MaxCalls
    /\ last.set
    /\ last.result.ok
    /\ \E name \in Choices, written \in BOOLEAN :
          LET r == GenerateCall(self, content, name, clock)
          IN  /\ self' = r.self
              /\ template' = name
              /\ IF r.result.ok
                 THEN /\ html' = r.result.val
                      /\ out' = [opened |-> TRUE,
                                 text |-> IF written THEN r.result.val ELSE << >>]
                 ELSE UNCHANGED <<html, out>>
    /\ calls' = calls + 1
    /\ UNCHANGED <<pc, notebook, clock, content, cell_idx, md_idx, plot_idx,
                   pairs, messages, failure, uncaught, ref, last>>

InitApi ==
    /\ pc = "idle"
    /\ notebook = File(TRUE, TRUE, NoCellsDoc)
    /\ template = "default"
    /\ clock \in Clocks
    /\ content = EmptyContent
    /\ cell_idx = 0
    /\ md_idx = 0
    /\ plot_idx = 0
    /\ pairs = << >>
    /\ html = << >>
    /\ out = NoFile
    /\ messages = << >>
    /\ failure = "none"
    /\ uncaught = FALSE
    /\ self = NewGenerator
    /\ ref = NoRef
    /\ last = NoRef
    /\ calls = 0

NextApi ==
    \/ ApiParse
    \/ ApiGenerate

SpecApi == InitApi /\ [][NextApi]_vars

\* C7: parse_notebook returns the same content record for the same document
\* whatever calls were made on the generator before, and no call changes the
\* generator's fields plots and markdown_content: they stay empty.
C7_ParseIsPure ==
    /\ self.plots = << >>
    /\ self.markdown_content = << >>
    /\ (ref.set /\ last.set /\ last.doc = ref.doc) => last.result = ref.result

C7_Witness ==
    /\ ref.at = 1
    /\ last.at = 3
    /\ out.opened
    /\ last.doc = ref.doc
    /\ last.result.ok
    /\ Len(last.result.val.plots) = 1
    /\ Len(last.result.val.markdown) = 1

====
